---- MODULE Spec2Model ----
(***************************************************************************)
(* Model of the Atenea relay server (server.js): the request pipeline of   *)
(* POST /api/chat and POST /api/chat/stream -- validation, moderation,     *)
(* retrieval over the in-memory embedding set, prompt assembly, and the    *)
(* buffered / streamed completion relay -- with GET /healthz, and the      *)
(* Next.js route pages/api/chat.js, which relays without moderation and    *)
(* retrieval.                                                              *)
(*                                                                         *)
(* The state is that of one request at a time; a handler runs atomically   *)
(* from one await to the next, and the environment (the three upstream     *)
(* endpoints and the caller's connection) chooses every outcome.  The      *)
(* requests handled concurrently keep their locals to themselves: of their *)
(* steps the model has the one that works on the shared embedding store.   *)
(*                                                                         *)
(* Texts.  A request text is a run-length sequence of [c, n] runs (n       *)
(* copies of the character c), so that texts of 8000 characters stay       *)
(* small.  A stream text is a plain sequence of one-character strings.     *)
(* Arithmetic on embeddings is exact (integers), not IEEE floating point.  *)
(***************************************************************************)
EXTENDS Integers, Sequences, FiniteSets, TLC

\* ------------------------------------------------------------------ bounds

\* Largest number of characters one upstream read delivers.
MaxChunk == 7
\* Largest number of chunk boundaries of one stream that fall inside a line.
MaxSplits == 1

\* ------------------------------------------------------- program constants

MaxMessageLen == 8000
HistoryBound == 20
\* body.history.slice(-10) of the Next.js route
NextHistoryBound == 10
RAG_TOP_K == 3
SYSTEM_PROMPT == "Eres Atenea"

\* ------------------------------------------------------------------- texts

Run(c, n) == [c |-> c, n |-> n]
Txt(c, n) == IF n = 0 THEN << >> ELSE << Run(c, n) >>

IsSpace(c) == c \in {" ", "\t", "\n", "\r"}

RECURSIVE TextLength(_)
TextLength(s) == IF s = << >> THEN 0 ELSE Head(s).n + TextLength(Tail(s))

RECURSIVE TrimStart(_)
TrimStart(s) ==
    IF s = << >> THEN << >>
    ELSE IF IsSpace(Head(s).c) THEN TrimStart(Tail(s)) ELSE s

RECURSIVE TrimEnd(_)
TrimEnd(s) ==
    IF s = << >> THEN << >>
    ELSE IF IsSpace(s[Len(s)].c) THEN TrimEnd(SubSeq(s, 1, Len(s) - 1)) ELSE s

\* String.prototype.trim
Trim(s) == TrimEnd(TrimStart(s))

\* --------------------------------------------------------------- JS values

Undefined == [t |-> "undefined"]
Null == [t |-> "null"]
JStr(s) == [t |-> "string", s |-> s]
JNum(n) == [t |-> "number", n |-> n]
JBool(b) == [t |-> "boolean", b |-> b]
\* An array of texts, and a plain object whose own "toString" key is or is
\* not shadowed by a non-function.
JArr(items) == [t |-> "array", items |-> items]
JObj(callable) == [t |-> "object", toStringCallable |-> callable]

\* ToBoolean
Truthy(v) ==
    CASE v.t = "undefined" -> FALSE
      [] v.t = "null" -> FALSE
      [] v.t = "string" -> v.s # << >>
      [] v.t = "number" -> v.n # 0
      [] v.t = "boolean" -> v.b
      [] OTHER -> TRUE

Digit(d) == << "0", "1", "2", "3", "4", "5", "6", "7", "8", "9" >>[d + 1]

RECURSIVE Digits(_)
Digits(n) ==
    IF n < 10 THEN << Run(Digit(n), 1) >>
    ELSE Digits(n \div 10) \o << Run(Digit(n % 10), 1) >>

RECURSIVE Join(_)
Join(items) ==
    IF items = << >> THEN << >>
    ELSE IF Len(items) = 1 THEN items[1]
    ELSE items[1] \o << Run(",", 1) >> \o Join(Tail(items))

\* The text made of the characters of a tuple, one run each.
Chars(cs) == [i \in 1..Len(cs) |-> Run(cs[i], 1)]

\* "[object Object]": 15 characters.
ObjectObject == Chars(<< "[", "o", "b", "j", "e", "c", "t", " " >>)
                  \o Chars(<< "O", "b", "j", "e", "c", "t", "]" >>)

\* v.toString() raises a TypeError: null and undefined have no properties,
\* and an own "toString" that is not a function cannot be called.
ToStringThrows(v) ==
    \/ v.t \in {"undefined", "null"}
    \/ v.t = "object" /\ ~v.toStringCallable

\* v.toString(), where it does not throw.
ToStringOf(v) ==
    CASE v.t = "string" -> v.s
      [] v.t = "number" -> Digits(v.n)
      [] v.t = "boolean" ->
           IF v.b THEN Chars(<< "t", "r", "u", "e" >>)
           ELSE Chars(<< "f", "a", "l", "s", "e" >>)
      [] v.t = "array" -> Join(v.items)
      [] OTHER -> ObjectObject

\* String(v): as toString, but null and undefined have a text too.
StringThrows(v) == v.t = "object" /\ ~v.toStringCallable
StringOf(v) ==
    CASE v.t = "undefined" ->
           Chars(<< "u", "n", "d", "e", "f", "i", "n", "e", "d" >>)
      [] v.t = "null" -> Chars(<< "n", "u", "l", "l" >>)
      [] OTHER -> ToStringOf(v)

\* (body.message || "").toString()
MessageOrEmpty(message) == IF Truthy(message) THEN message ELSE JStr(<< >>)
MessageThrows(message) == ToStringThrows(MessageOrEmpty(message))
MessageText(message) == ToStringOf(MessageOrEmpty(message))

\* ------------------------------------------------------------- validation

\* The texts of the error bodies and events, without their accents.

ErrInvalid == "El mensaje esta vacio o no es valido."
ErrEmpty == "El mensaje esta vacio."
ErrTooLong == "Mensaje demasiado largo."
ErrPolicy == "El contenido del mensaje ha sido bloqueado por politicas de seguridad."
ErrNoKey == "OpenAI API key not configured."
ErrUpstream == "Error comunicandose con el servicio de IA."
ErrShape == "Respuesta inesperada del servicio de IA."
ErrServer == "Error del servidor al procesar la solicitud."
ErrStreamUpstream == "Error en streaming desde OpenAI"
ErrStreamServer == "Error en el servidor durante el streaming."
ErrMethod == "Metodo no permitido"
ErrNextNoKey == "OpenAI API key no configurada."

NoError == "null"

\* validateMessageText: text is always a string here (the handlers coerce
\* the message first), so the typeof test can only see the empty string.
validateMessageText(text) ==
    IF text = << >> THEN ErrInvalid
    ELSE IF TextLength(Trim(text)) = 0 THEN ErrEmpty
    ELSE IF TextLength(text) > MaxMessageLen THEN ErrTooLong
    ELSE NoError

\* ------------------------------------------------------ similarity engine

\* a[i] || 0 for an index that may lie past the end of the vector.
At(a, i) == IF i <= Len(a) THEN a[i] ELSE 0

RECURSIVE DotFrom(_, _, _)
DotFrom(a, b, i) ==
    IF i > Len(a) THEN 0 ELSE At(a, i) * At(b, i) + DotFrom(a, b, i + 1)

\* dot: the loop runs over the indices of a.
dot(a, b) == DotFrom(a, b, 1)

\* norm(a) is the square root of dot(a, a); the model keeps its square.
normSquared(a) == dot(a, a)

SignedSquare(x) == IF x < 0 THEN 0 - x * x ELSE x * x

\* A faulty variant of cosineSim: no test for a zero norm, the division is
\* done whatever the norms are.
cosineSim_NoZeroTest(a, b) ==
    [num |-> SignedSquare(dot(a, b)), den |-> normSquared(a) * normSquared(b)]

\* cosineSim as the exact fraction sgn(d) * d^2 / (|a|^2 * |b|^2), whose
\* order is the order of d / (|a| * |b|); 0 / 1 when a norm is zero.
cosineSim(a, b) ==
    IF normSquared(a) * normSquared(b) = 0 THEN [num |-> 0, den |-> 1]
    ELSE [num |-> SignedSquare(dot(a, b)),
          den |-> normSquared(a) * normSquared(b)]

\* b.sim - a.sim < 0, > 0: the comparator of the ranking sort.
SimGreater(x, y) == x.num * y.den > y.num * x.den

\* ------------------------------------------------------- embedding store

Doc(id, text, embedding) == [id |-> id, text |-> text, embedding |-> embedding]
Vec(v) == [t |-> "vector", v |-> v]

CorpusGood ==
    << Doc(JStr(Txt("1", 1)), JStr(Txt("u", 3)), Vec(<< 1, 0 >>)),
       Doc(JStr(Txt("2", 1)), JStr(Txt("d", 3)), Vec(<< 0, 1 >>)),
       Doc(JStr(Txt("3", 1)), JStr(Txt("t", 4)), Vec(<< 2, 0 >>)),
       Doc(JStr(Txt("4", 1)), JStr(Txt("c", 6)), Vec(<< 1, 1 >>)),
       Doc(JStr(Txt("5", 1)), JStr(Txt("z", 4)), Vec(<< 0, 0 >>)) >>

\* Fewer records than RAG_TOP_K.
CorpusSmall == << CorpusGood[4], CorpusGood[2] >>

\* A record of the file without a text, and one without id and embedding.
CorpusPartial ==
    << Doc(JStr(Txt("1", 1)), JStr(Txt("u", 3)), Vec(<< 1, 0 >>)),
       Doc(JStr(Txt("2", 1)), Undefined, Vec(<< 0, 1 >>)),
       Doc(Undefined, JStr(Txt("t", 4)), Undefined) >>

\* vectors.json as the process finds it at startup.
VectorFiles ==
    { [exists |-> FALSE],
      [exists |-> TRUE, parses |-> FALSE],
      [exists |-> TRUE, parses |-> TRUE, isArray |-> FALSE],
      [exists |-> TRUE, parses |-> TRUE, isArray |-> TRUE, records |-> << >>],
      [exists |-> TRUE, parses |-> TRUE, isArray |-> TRUE, records |-> CorpusGood],
      [exists |-> TRUE, parses |-> TRUE, isArray |-> TRUE, records |-> CorpusSmall],
      [exists |-> TRUE, parses |-> TRUE, isArray |-> TRUE, records |-> CorpusPartial],
      [exists |-> TRUE, parses |-> TRUE, isArray |-> TRUE,
       records |-> << CorpusGood[1], Null >>] }

\* A record of the file is an object, or null (the only value with a "t").

\* The startup load: readFileSync or JSON.parse throwing, or the map over a
\* null record throwing, leaves the initial empty array; a record's fields
\* are copied as they are, present or not.
LoadVectors(enabled, file) ==
    IF ~enabled \/ ~file.exists \/ ~file.parses \/ ~file.isArray THEN << >>
    ELSE IF \E i \in 1..Len(file.records) : "t" \in DOMAIN file.records[i] THEN << >>
    ELSE file.records

\* ------------------------------------------------------- moderation gate

Threw == [kind |-> "throw"]
Status(code) == [kind |-> "status", status |-> code]
Unparsable == [kind |-> "json", parses |-> FALSE]

\* A moderation response body that parses: "results" is absent (also for a
\* body of null) or an array whose elements are given by their "flagged"
\* value, Undefined where the result has none.
ModBody(results) == [kind |-> "json", parses |-> TRUE, results |-> results]

ModerationOutcomes ==
    { Threw, Status(500), Status(429), Unparsable,
      ModBody(Undefined), ModBody(JArr(<< >>)), ModBody(JArr(<< Undefined >>)),
      ModBody(JArr(<< JBool(FALSE) >>)), ModBody(JArr(<< JBool(TRUE) >>)),
      ModBody(JArr(<< JStr(Chars(<< "n", "o" >>)) >>)) }

\* j?.results?.[0]?.flagged
FirstFlagged(results) ==
    IF results.t # "array" THEN Undefined
    ELSE IF results.items = << >> THEN Undefined
    ELSE results.items[1]

\* The call failed: fetch rejected, the status was not a success, the body
\* did not parse (an empty body does not), or it holds no first result with
\* a "flagged" value.
ModerationFailed(outcome) ==
    \/ outcome.kind \in {"throw", "status"}
    \/ outcome.kind = "json" /\ ~outcome.parses
    \/ outcome.kind = "json" /\ outcome.parses
         /\ FirstFlagged(outcome.results).t = "undefined"

\* A faulty variant of ModerationVerdict: a failed call counts as a flag.
ModerationVerdict_FailClosed(outcome) ==
    IF outcome.kind # "json" \/ ~outcome.parses THEN TRUE
    ELSE Truthy(FirstFlagged(outcome.results))

\* The try block of runModerationCheck: !!r?.flagged when the call answers a
\* success status with a body that parses; false in every other case.
ModerationVerdict(outcome) ==
    IF outcome.kind # "json" \/ ~outcome.parses THEN FALSE
    ELSE Truthy(FirstFlagged(outcome.results))

\* -------------------------------------------------------------- retrieval

\* An embeddings response body that parses, with data[0].embedding or not.
EmbBody(embedding) == [kind |-> "json", parses |-> TRUE, embedding |-> embedding]

EmbeddingOutcomes ==
    { Threw, Status(500), Unparsable, EmbBody(Undefined),
      EmbBody(Vec(<< 1, 0 >>)), EmbBody(Vec(<< 0, 0 >>)), EmbBody(Vec(<< >>)),
      EmbBody(Vec(<< 0 - 1, 2 >>)) }

\* getEmbedding throws: fetch rejects, a non-success status, or json() rejects.
getEmbeddingThrows(outcome) == outcome.kind # "json" \/ ~outcome.parses
getEmbedding(outcome) == outcome.embedding

\* cosineSim(qemb, v.embedding) raises a TypeError on a missing vector.
RankThrows(qemb, vectors) ==
    \/ qemb.t = "undefined"
    \/ \E i \in 1..Len(vectors) : vectors[i].embedding.t = "undefined"

WithSim(qemb, v) ==
    [id |-> v.id, text |-> v.text, embedding |-> v.embedding,
     sim |-> cosineSim(qemb.v, v.embedding.v)]

\* A faulty variant of InsertBySim: x goes before its equals (a sort that
\* is not stable).
RECURSIVE InsertBySim_BeforeEquals(_, _)
InsertBySim_BeforeEquals(sorted, x) ==
    IF sorted = << >> THEN << x >>
    ELSE IF ~SimGreater(Head(sorted).sim, x.sim) THEN << x >> \o sorted
    ELSE << Head(sorted) >> \o InsertBySim_BeforeEquals(Tail(sorted), x)

\* Insertion of x into a list sorted by decreasing sim, after its equals.
RECURSIVE InsertBySim(_, _)
InsertBySim(sorted, x) ==
    IF sorted = << >> THEN << x >>
    ELSE IF SimGreater(x.sim, Head(sorted).sim) THEN << x >> \o sorted
    ELSE << Head(sorted) >> \o InsertBySim(Tail(sorted), x)

RECURSIVE SortBySim(_)
SortBySim(sims) ==
    IF sims = << >> THEN << >>
    ELSE InsertBySim(SortBySim(SubSeq(sims, 1, Len(sims) - 1)), sims[Len(sims)])

\* sims.slice(0, RAG_TOP_K)
Prefix(s, k) == SubSeq(s, 1, IF Len(s) < k THEN Len(s) ELSE k)

\* RAG_VECTORS.map(...), sims.sort(...), sims.slice(0, RAG_TOP_K)
RankTopDocs(qemb, vectors) ==
    Prefix(SortBySim([i \in 1..Len(vectors) |-> WithSim(qemb, vectors[i])]),
           RAG_TOP_K)

\* The try block of the retrieval step, given how the embedding call ended.
RetrievedDocs(outcome, vectors) ==
    IF getEmbeddingThrows(outcome) THEN << >>
    ELSE IF RankThrows(getEmbedding(outcome), vectors) THEN << >>
    ELSE RankTopDocs(getEmbedding(outcome), vectors)

\* A faulty variant of StoreAfterRanking: the annotation and the sort are
\* done on RAG_VECTORS itself.
StoreAfterRanking_InPlace(outcome, vectors) ==
    IF getEmbeddingThrows(outcome) THEN vectors
    ELSE IF RankThrows(getEmbedding(outcome), vectors) THEN vectors
    ELSE SortBySim([i \in 1..Len(vectors) |->
                       WithSim(getEmbedding(outcome), vectors[i])])

\* RAG_VECTORS after the retrieval step: map builds a new array of new
\* objects, and sort and slice work on that array.
StoreAfterRanking(outcome, vectors) == vectors

\* ------------------------------------------------------- prompt assembler

\* An entry of the caller's history: null, or an object with a role (an
\* atom; "undefined" when absent) and a content of any type.
Turn(role, content) == [role |-> role, content |-> content]
IsNullEntry(h) == "t" \in DOMAIN h

\* A faulty variant of SliceLast: slice(0, k), the oldest entries.
SliceLast_Oldest(s, k) == Prefix(s, k)

\* Array.prototype.slice(-k)
SliceLast(s, k) == IF Len(s) <= k THEN s ELSE SubSeq(s, Len(s) - k + 1, Len(s))

\* Array.isArray(body.history) ? body.history.slice(-20) : []
ClientHistory(history) ==
    IF history.t = "array" THEN SliceLast(history.items, HistoryBound) ELSE << >>

\* Array.isArray(body.history) ? body.history.slice(-10) : []
NextClientHistory(history) ==
    IF history.t = "array" THEN SliceLast(history.items, NextHistoryBound)
    ELSE << >>

\* The system message: the prompt alone, or the prompt followed by the
\* numbered texts of the documents (a template literal, so each text is
\* converted with String) and the closing instruction.
RagSystem(systemPrompt, topDocs) ==
    [prompt |-> systemPrompt,
     docs |-> [i \in 1..Len(topDocs) |-> StringOf(topDocs[i].text)]]

\* h.role on null, or String(h.content) on an uncallable toString.
buildMessagesThrows(history) ==
    \E i \in 1..Len(history) :
        \/ IsNullEntry(history[i])
        \/ StringThrows(history[i].content)

Message(role, content) == [role |-> role, content |-> content]

\* A faulty variant of buildMessagesWithRAG: a history entry keeps the role
\* its sender gave it.
buildMessagesWithRAG_KeepsRole(systemPrompt, history, userMessage, topDocs) ==
    << Message("system", RagSystem(systemPrompt, topDocs)) >>
    \o [i \in 1..Len(history) |->
          Message(history[i].role, StringOf(history[i].content))]
    \o << Message("user", userMessage) >>

buildMessagesWithRAG(systemPrompt, history, userMessage, topDocs) ==
    << Message("system", RagSystem(systemPrompt, topDocs)) >>
    \o [i \in 1..Len(history) |->
          Message(IF history[i].role = "assistant" THEN "assistant" ELSE "user",
                  StringOf(history[i].content))]
    \o << Message("user", userMessage) >>

\* The messages of the Next.js route: the system prompt as it is, the
\* history, the user's message.
nextMessages(systemPrompt, history, userMessage) ==
    << Message("system", RagSystem(systemPrompt, << >>)) >>
    \o [i \in 1..Len(history) |->
          Message(IF history[i].role = "assistant" THEN "assistant" ELSE "user",
                  StringOf(history[i].content))]
    \o << Message("user", userMessage) >>

\* ------------------------------------------------------- stream texts

\* A line of split(/\r?\n/): the carriage return before the newline goes.
StripCR(line) ==
    IF line # << >> /\ line[Len(line)] = "\r"
    THEN SubSeq(line, 1, Len(line) - 1) ELSE line

RECURSIVE SplitAcc(_, _, _)
SplitAcc(rest, cur, out) ==
    IF rest = << >> THEN Append(out, cur)
    ELSE IF Head(rest) = "\n"
         THEN SplitAcc(Tail(rest), << >>, Append(out, StripCR(cur)))
         ELSE SplitAcc(Tail(rest), Append(cur, Head(rest)), out)

\* chunk.split(/\r?\n/)
Split(chunk) == SplitAcc(chunk, << >>, << >>)

\* line.trim() === ""
IsBlank(line) == \A i \in 1..Len(line) : IsSpace(line[i])

DataPrefix == << "d", "a", "t", "a", ":" >>

\* line.startsWith("data:")
StartsWithData(line) ==
    Len(line) >= Len(DataPrefix) /\ SubSeq(line, 1, Len(DataPrefix)) = DataPrefix

RECURSIVE DropSpaces(_)
DropSpaces(s) ==
    IF s # << >> /\ IsSpace(Head(s)) THEN DropSpaces(Tail(s)) ELSE s

\* line.replace(/^data:\s*/, "")
Payload(line) == DropSpaces(SubSeq(line, Len(DataPrefix) + 1, Len(line)))

Escape(c) ==
    CASE c = "\"" -> << "\\", "\"" >>
      [] c = "\\" -> << "\\", "\\" >>
      [] c = "\r" -> << "\\", "r" >>
      [] c = "\t" -> << "\\", "t" >>
      [] OTHER -> << c >>

RECURSIVE EscapeAll(_)
EscapeAll(s) == IF s = << >> THEN << >> ELSE Escape(Head(s)) \o EscapeAll(Tail(s))

\* JSON.stringify of a string
JSONStringify(s) == << "\"" >> \o EscapeAll(s) \o << "\"" >>

\* What res.write is given: `data: ${data}\n\n`, preceded for the two
\* terminal events by `event: ${event}\n`.
Frame(event, data) == [event |-> event, data |-> data]
DoneFrame == Frame("done", << "[", "D", "O", "N", "E", "]" >>)
ErrorFrame(msg) == Frame("error", msg)

\* The frame of one line that passed both filters.
LineFrame(line) ==
    IF StartsWithData(line) THEN Frame("message", Payload(line))
    ELSE Frame("message", JSONStringify(line))

\* filter(Boolean) and the trim test of the loop
Kept(line) == line # << >> /\ ~IsBlank(line)

RECURSIVE FramesOfLines(_)
FramesOfLines(lines) ==
    IF lines = << >> THEN << >>
    ELSE IF Kept(Head(lines))
         THEN << LineFrame(Head(lines)) >> \o FramesOfLines(Tail(lines))
         ELSE FramesOfLines(Tail(lines))

\* A faulty variant of FramesOfChunk: one event per chunk, the first line's.
FramesOfChunk_FirstLineOnly(chunk) ==
    Prefix(FramesOfLines(Split(chunk)), 1)

\* The body of the read loop for one chunk: the frames written, in order.
FramesOfChunk(chunk) == FramesOfLines(Split(chunk))

\* ------------------------------------------------------------------ inputs

Hola == Txt("h", 4)

Messages ==
    { Undefined, Null, JStr(<< >>), JStr(Txt(" ", 3)), JStr(Hola),
      JStr(Txt(" ", 1) \o Txt("a", 1) \o Txt(" ", 1)),
      JStr(Txt("a", MaxMessageLen)), JStr(Txt("a", MaxMessageLen + 1)),
      JStr(Txt("a", MaxMessageLen - 1) \o Txt(" ", 2)),
      JNum(0), JNum(123), JBool(FALSE), JBool(TRUE),
      JArr(<< >>), JArr(<< Hola >>), JObj(TRUE), JObj(FALSE) }

LongHistory ==
    [i \in 1..(HistoryBound + 1) |->
        Turn(IF i % 2 = 1 THEN "user" ELSE "assistant", JNum(i))]

Histories ==
    { Undefined, JStr(Hola),
      JArr(<< Turn("assistant", JStr(Hola)), Turn("system", Undefined) >>),
      JArr(LongHistory),
      JArr(<< Null >>),
      JArr(<< Turn("user", JObj(FALSE)) >>) }

\* req.body: absent (no JSON body was sent), or an object.
Body(message, history) == [message |-> message, history |-> history]
Bodies ==
    { Undefined }
      \cup { Body(m, Undefined) : m \in Messages }
      \cup { Body(JStr(Hola), h) : h \in Histories }

\* req.body || {}
BodyOrEmpty(body) ==
    IF "t" \in DOMAIN body THEN Body(Undefined, Undefined) ELSE body

\* Bodies of the streaming completion endpoint.
Streams ==
    { << >>,
      << "d", "a", "t", "a", ":", "1", "\n",
         "d", "a", "t", "a", ":", "2", "\n",
         "d", "a", "t", "a", ":", "3", "\n" >>,
      << "d", "a", "t", "a", ":", "a", "\n", "\n",
         "d", "a", "t", "a", ":", " ", "b" >>,
      << "x", "\r", "\n", "y", "\n", " ", "\n", "d", "a", "t", "a", ":", "\n" >> }

\* The buffered completion endpoint: choices[0].message.content or not.
ChatBody(content) == [kind |-> "json", parses |-> TRUE, content |-> content]
ErrStatus(code, text) == [kind |-> "status", status |-> code, text |-> text]

CompletionOutcomes ==
    { Threw, ErrStatus(500, "boom"), ErrStatus(401, "bad key"), Unparsable,
      ChatBody(Undefined), ChatBody(JStr(<< >>)), ChatBody(JNum(7)),
      ChatBody(JStr(Txt(" ", 2))),
      ChatBody(JStr(Txt(" ", 1) \o Hola \o Txt("\n", 1))) }

\* The streaming fetch: rejects, answers a non-success status, answers
\* without a body, or answers with a body to read.
StreamFetchOutcomes ==
    { Threw, ErrStatus(500, "boom"), ErrStatus(429, "slow down"),
      [kind |-> "nobody"] }
      \cup { [kind |-> "body", body |-> s] : s \in Streams }

\* ------------------------------------------------------------------- state

VARIABLES
    OPENAI_KEY,     \* TRUE iff process.env.OPENAI_API_KEY is set
    RAG_ENABLED,
    RAG_VECTORS,
    pc,             \* where the handler of the current request is
    req,            \* endpoint, userMessage, clientHistory
    topDocs,
    res,            \* the response object
    inflight,       \* the promise the handler awaits, and how it settled
    upstream,       \* the streaming body: its text and what was read of it
    connected,      \* the caller's connection is open
    calls,          \* every fetch issued for the current request, in order
    mod,            \* the moderation step of the current request: whether the
                    \* call was made, whether it failed, and the verdict
    writesAfterClose \* res.write calls made after the caller disconnected

config == << OPENAI_KEY, RAG_ENABLED, RAG_VECTORS >>
vars == << OPENAI_KEY, RAG_ENABLED, RAG_VECTORS, pc, req, topDocs, res,
           inflight, upstream, connected, calls, mod, writesAfterClose >>

Pending == [kind |-> "pending"]
NoCall == [api |-> "none", result |-> Pending]

NoBody == [kind |-> "none"]
ErrorBody(msg) == [kind |-> "error", error |-> msg]
ReplyBody(text) == [kind |-> "reply", reply |-> text]
\* { status: "ok", rag: RAG_ENABLED, rag_vectors: RAG_VECTORS.length }
HealthBody(rag, size) == [kind |-> "health", rag |-> rag, rag_vectors |-> size]

\* A response nothing was done to: Node's default status is 200.
FreshRes ==
    [status |-> 200, statusCalls |-> 0, body |-> NoBody, flushed |-> FALSE,
     writes |-> << >>, ended |-> FALSE]

NoReq == [endpoint |-> "none", message |-> Undefined, history |-> Undefined,
          userMessage |-> << >>, clientHistory |-> << >>]
NoUpstream == [body |-> << >>, pos |-> 0, splits |-> 0, ending |-> "none"]
NoMod == [called |-> FALSE, failed |-> FALSE, flagged |-> FALSE]

Init ==
    /\ OPENAI_KEY \in BOOLEAN
    /\ RAG_ENABLED \in BOOLEAN
    /\ \E file \in VectorFiles : RAG_VECTORS = LoadVectors(RAG_ENABLED, file)
    /\ pc = "idle"
    /\ req = NoReq
    /\ topDocs = << >>
    /\ res = FreshRes
    /\ inflight = NoCall
    /\ upstream = NoUpstream
    /\ connected = TRUE
    /\ calls = << >>
    /\ mod = NoMod
    /\ writesAfterClose = 0

\* The handler's view of the state, and the state it leaves.
Cur ==
    [pc |-> pc, req |-> req, topDocs |-> topDocs, res |-> res,
     inflight |-> inflight, calls |-> calls, mod |-> mod,
     connected |-> connected, writesAfterClose |-> writesAfterClose]

Become(s) ==
    /\ pc' = s.pc
    /\ req' = s.req
    /\ topDocs' = s.topDocs
    /\ res' = s.res
    /\ inflight' = s.inflight
    /\ calls' = s.calls
    /\ mod' = s.mod
    /\ writesAfterClose' = s.writesAfterClose

\* --------------------------------------------------- the handlers' steps

\* res.status(code).json({ error: msg }); return
Respond(s, code, msg) ==
    [s EXCEPT !.pc = "done",
              !.res = [@ EXCEPT !.status = code, !.statusCalls = @ + 1,
                                !.body = ErrorBody(msg), !.ended = TRUE]]

\* res.json({ reply }): the status is left as it is
RespondReply(s, text) ==
    [s EXCEPT !.pc = "done",
              !.res = [@ EXCEPT !.body = ReplyBody(text), !.ended = TRUE]]

\* An exception no try block of the handler catches: the handler's promise
\* rejects and the handler does nothing more for the request.
Throw(s) == [s EXCEPT !.pc = "threw"]

\* await fetch(...): no option of the call carries a signal or a timeout
Fetch(s, call, at) ==
    [s EXCEPT !.calls = Append(@, call),
              !.inflight = [api |-> call.api, result |-> Pending],
              !.pc = at]

\* res.write(frame): on a connection the caller closed Node drops the data
\* and reports the error to the write's callback; the call does not throw.
Write(s, frame) ==
    [s EXCEPT !.res = [@ EXCEPT !.writes = Append(@, frame)],
              !.writesAfterClose = IF s.connected THEN @ ELSE @ + 1]

RECURSIVE WriteAll(_, _)
WriteAll(s, frames) ==
    IF frames = << >> THEN s ELSE WriteAll(Write(s, Head(frames)), Tail(frames))

\* res.end()
End(s) == [s EXCEPT !.pc = "done", !.res = [@ EXCEPT !.ended = TRUE]]

ModerationCall(s) ==
    [api |-> "moderation", input |-> s.req.userMessage, authorized |-> OPENAI_KEY]
EmbeddingCall(s) ==
    [api |-> "embedding", input |-> s.req.userMessage, authorized |-> OPENAI_KEY]
CompletionCall(s, messages, stream) ==
    [api |-> "completion", stream |-> stream, messages |-> messages,
     authorized |-> OPENAI_KEY]

\* From buildMessagesWithRAG to the completion fetch: the credential test,
\* then the buffered call, or the event-stream headers and the streaming call.
Relay(s) ==
    IF buildMessagesThrows(s.req.clientHistory) THEN Throw(s)
    ELSE IF ~OPENAI_KEY THEN Respond(s, 500, ErrNoKey)
    ELSE LET messages == buildMessagesWithRAG(SYSTEM_PROMPT, s.req.clientHistory,
                                              s.req.userMessage, s.topDocs)
         IN  IF s.req.endpoint = "chat"
             THEN Fetch(s, CompletionCall(s, messages, FALSE), "awaitCompletion")
             ELSE Fetch([s EXCEPT !.res = [@ EXCEPT !.flushed = TRUE]],
                        CompletionCall(s, messages, TRUE), "awaitStreamFetch")

\* let topDocs = []; if (RAG_ENABLED && RAG_VECTORS.length > 0) ...
Retrieve(s) ==
    IF RAG_ENABLED /\ Len(RAG_VECTORS) > 0
    THEN Fetch(s, EmbeddingCall(s), "awaitEmbedding")
    ELSE Relay([s EXCEPT !.topDocs = << >>])

\* A faulty variant of Retrieved: the retrieval step has no try block.
Retrieved_NoCatch(s, outcome) ==
    IF getEmbeddingThrows(outcome) THEN Throw(s)
    ELSE IF RankThrows(getEmbedding(outcome), RAG_VECTORS) THEN Throw(s)
    ELSE Relay([s EXCEPT !.topDocs = RankTopDocs(getEmbedding(outcome),
                                                 RAG_VECTORS)])

\* The retrieval step after getEmbedding settled: topDocs is the ranking, or
\* stays empty when the try block was left by an exception; then the relay.
Retrieved(s, outcome) ==
    Relay([s EXCEPT !.topDocs = RetrievedDocs(outcome, RAG_VECTORS)])

\* A faulty variant of Moderated: the flagged branch does not return.
Moderated_FallsThrough(s, outcome, flagged) ==
    Retrieve([s EXCEPT !.mod = [called |-> outcome.kind # "pending",
                                failed |-> ModerationFailed(outcome),
                                flagged |-> flagged]])

\* if (mod.flagged) { res.status(400)...; return }
Moderated(s, outcome, flagged) ==
    LET t == [s EXCEPT !.mod = [called |-> outcome.kind # "pending",
                                failed |-> ModerationFailed(outcome),
                                flagged |-> flagged]]
    IN  IF flagged THEN Respond(t, 400, ErrPolicy) ELSE Retrieve(t)

\* A faulty variant of Moderate: the moderation call is not awaited, and the
\* handler goes on to the retrieval step at once.
Moderate_NoAwait(s) ==
    IF ~OPENAI_KEY THEN Moderated(s, Pending, FALSE)
    ELSE Retrieve(Fetch(s, ModerationCall(s), "awaitModeration"))

\* runModerationCheck up to its fetch: without a credential it answers
\* { flagged: false } at once.
Moderate(s) ==
    IF ~OPENAI_KEY THEN Moderated(s, Pending, FALSE)
    ELSE Fetch(s, ModerationCall(s), "awaitModeration")

\* The head of both handlers: body, userMessage, clientHistory, validation.
Accept(endpoint, body) ==
    LET b == BodyOrEmpty(body)
        s == [Cur EXCEPT !.req = [NoReq EXCEPT !.endpoint = endpoint,
                                               !.message = b.message]]
    IN  IF MessageThrows(b.message) THEN Throw(s)
        ELSE LET text == MessageText(b.message)
                 t == [s EXCEPT !.req = [@ EXCEPT !.userMessage = text,
                                    !.history = b.history,
                                    !.clientHistory = ClientHistory(b.history)]]
             IN  IF validateMessageText(text) # NoError
                 THEN Respond(t, 400, validateMessageText(text))
                 ELSE Moderate(t)

\* A faulty variant of Completed: the 502 carries the upstream's error text.
Completed_LeaksText(s, outcome) ==
    LET t == [s EXCEPT !.inflight = NoCall]
    IN  CASE outcome.kind = "throw" -> Respond(t, 500, ErrServer)
          [] outcome.kind = "status" -> Respond(t, 502, outcome.text)
          [] outcome.kind = "json" /\ ~outcome.parses -> Respond(t, 500, ErrServer)
          [] OTHER ->
               IF ~Truthy(outcome.content) THEN Respond(t, 502, ErrShape)
               ELSE IF outcome.content.t # "string" THEN Respond(t, 500, ErrServer)
               ELSE RespondReply(t, Trim(outcome.content.s))

\* A faulty variant of Completed: the reply is sent as it was received.
Completed_NoTrim(s, outcome) ==
    LET t == [s EXCEPT !.inflight = NoCall]
    IN  CASE outcome.kind = "throw" -> Respond(t, 500, ErrServer)
          [] outcome.kind = "status" -> Respond(t, 502, ErrUpstream)
          [] outcome.kind = "json" /\ ~outcome.parses -> Respond(t, 500, ErrServer)
          [] OTHER ->
               IF ~Truthy(outcome.content) THEN Respond(t, 502, ErrShape)
               ELSE IF outcome.content.t # "string" THEN Respond(t, 500, ErrServer)
               ELSE RespondReply(t, outcome.content.s)

\* The buffered relay after its fetch settled: json() rejecting, and trim
\* missing on a content that is not a string, land in the catch block.
Completed(s, outcome) ==
    LET t == [s EXCEPT !.inflight = NoCall]
    IN  CASE outcome.kind = "throw" -> Respond(t, 500, ErrServer)
          [] outcome.kind = "status" -> Respond(t, 502, ErrUpstream)
          [] outcome.kind = "json" /\ ~outcome.parses -> Respond(t, 500, ErrServer)
          [] OTHER ->
               IF ~Truthy(outcome.content) THEN Respond(t, 502, ErrShape)
               ELSE IF outcome.content.t # "string" THEN Respond(t, 500, ErrServer)
               ELSE RespondReply(t, Trim(outcome.content.s))

\* res.status(200).json({ reply })
RespondOK(s, text) ==
    [s EXCEPT !.pc = "done",
              !.res = [@ EXCEPT !.status = 200, !.statusCalls = @ + 1,
                                !.body = ReplyBody(text), !.ended = TRUE]]

\* The Next.js route up to its fetch: the method, the credential, body,
\* userMessage, clientHistory, the two validation tests, the messages.
NextAccept(method, body) ==
    LET s == [Cur EXCEPT !.req = [NoReq EXCEPT !.endpoint = "next"]]
        b == BodyOrEmpty(body)
    IN  IF method # "POST" THEN Respond(s, 405, ErrMethod)
        ELSE IF ~OPENAI_KEY THEN Respond(s, 500, ErrNextNoKey)
        ELSE IF MessageThrows(b.message)
             THEN Throw([s EXCEPT !.req = [@ EXCEPT !.message = b.message]])
        ELSE LET text == MessageText(b.message)
                 t == [s EXCEPT !.req = [@ EXCEPT !.message = b.message,
                                !.userMessage = text,
                                !.history = b.history,
                                !.clientHistory = NextClientHistory(b.history)]]
             IN  IF text = << >> \/ TextLength(Trim(text)) = 0
                 THEN Respond(t, 400, ErrEmpty)
                 ELSE IF TextLength(text) > MaxMessageLen
                 THEN Respond(t, 400, ErrTooLong)
                 ELSE IF buildMessagesThrows(t.req.clientHistory) THEN Throw(t)
                 ELSE Fetch(t,
                            CompletionCall(t,
                                nextMessages(SYSTEM_PROMPT, t.req.clientHistory,
                                             text), FALSE),
                            "awaitNextCompletion")

\* The Next.js route after its fetch settled.
NextCompleted(s, outcome) ==
    LET t == [s EXCEPT !.inflight = NoCall]
    IN  CASE outcome.kind = "throw" -> Respond(t, 500, ErrServer)
          [] outcome.kind = "status" -> Respond(t, 502, ErrUpstream)
          [] outcome.kind = "json" /\ ~outcome.parses -> Respond(t, 500, ErrServer)
          [] OTHER ->
               IF ~Truthy(outcome.content) THEN Respond(t, 502, ErrShape)
               ELSE IF outcome.content.t # "string" THEN Respond(t, 500, ErrServer)
               ELSE RespondOK(t, Trim(outcome.content.s))

\* A faulty variant of StreamFailed: the catch block closes without an event.
StreamFailed_Silent(s) == End(s)

\* catch (err) of the streaming handler
StreamFailed(s) == End(Write(s, ErrorFrame(ErrStreamServer)))

\* A faulty variant of StreamOpened: the error branch does not return, and the read
\* that follows fails into the catch block.
StreamOpened_NoReturn(s, outcome) ==
    LET t == [s EXCEPT !.inflight = NoCall]
    IN  CASE outcome.kind = "throw" -> StreamFailed(t)
          [] outcome.kind \in {"status", "nobody"} ->
               StreamFailed(Write(t, ErrorFrame(ErrStreamUpstream)))
          [] OTHER ->
               [t EXCEPT !.pc = "reading",
                         !.inflight = [api |-> "read", result |-> Pending]]

\* A faulty variant of StreamOpened: the error branch answers as the buffered
\* handler does, with a 502.
StreamOpened_SetsStatus(s, outcome) ==
    LET t == [s EXCEPT !.inflight = NoCall]
    IN  CASE outcome.kind = "throw" -> StreamFailed(t)
          [] outcome.kind \in {"status", "nobody"} -> Respond(t, 502, ErrUpstream)
          [] OTHER ->
               [t EXCEPT !.pc = "reading",
                         !.inflight = [api |-> "read", result |-> Pending]]

\* The streaming relay after its fetch settled: the error event for a
\* non-success status or a missing body, else the first read.
StreamOpened(s, outcome) ==
    LET t == [s EXCEPT !.inflight = NoCall]
    IN  CASE outcome.kind = "throw" -> StreamFailed(t)
          [] outcome.kind \in {"status", "nobody"} ->
               End(Write(t, ErrorFrame(ErrStreamUpstream)))
          [] OTHER ->
               [t EXCEPT !.pc = "reading",
                         !.inflight = [api |-> "read", result |-> Pending]]

\* One turn of the read loop after reader.read() settled.
ReadDone(s, outcome) ==
    LET t == [s EXCEPT !.inflight = NoCall]
    IN  CASE outcome.kind = "throw" -> StreamFailed(t)
          [] outcome.kind = "chunk" ->
               [WriteAll(t, FramesOfChunk(outcome.value)) EXCEPT
                   !.inflight = [api |-> "read", result |-> Pending]]
          [] OTHER -> End(Write(t, DoneFrame))

\* ----------------------------------------------------------------- actions

Finished == pc \in {"done", "threw"}

\* app.post("/api/chat"): the handler up to its first await or its return.
PostChat ==
    /\ pc = "idle"
    /\ \E body \in Bodies : Become(Accept("chat", body))
    /\ UNCHANGED << config, upstream, connected >>

\* app.post("/api/chat/stream"): the same head.
PostChatStream ==
    /\ pc = "idle"
    /\ \E body \in Bodies : Become(Accept("stream", body))
    /\ UNCHANGED << config, upstream, connected >>

\* The Next.js route POST /api/chat, called with any method.
PostNextChat ==
    /\ pc = "idle"
    /\ \E method \in {"POST", "GET"}, body \in Bodies :
          Become(NextAccept(method, body))
    /\ UNCHANGED << config, upstream, connected >>

\* app.get("/healthz")
GetHealthz ==
    /\ pc = "idle"
    /\ pc' = "done"
    /\ req' = [NoReq EXCEPT !.endpoint = "healthz"]
    /\ res' = [FreshRes EXCEPT !.body = HealthBody(RAG_ENABLED, Len(RAG_VECTORS)),
                               !.ended = TRUE]
    /\ UNCHANGED << config, topDocs, inflight, upstream, connected, calls,
                    mod, writesAfterClose >>

\* The awaited promise settles with o (the environment's move).
Settle(o) ==
    /\ inflight.result = Pending
    /\ inflight' = [inflight EXCEPT !.result = o]
    /\ UNCHANGED << config, pc, req, topDocs, res, connected, calls,
                    mod, writesAfterClose >>

ModerationSettles ==
    /\ inflight.api = "moderation"
    /\ \E o \in ModerationOutcomes : Settle(o)
    /\ UNCHANGED upstream

EmbeddingSettles ==
    /\ inflight.api = "embedding"
    /\ \E o \in EmbeddingOutcomes : Settle(o)
    /\ UNCHANGED upstream

CompletionSettles ==
    /\ inflight.api = "completion"
    /\ pc \in {"awaitCompletion", "awaitNextCompletion"}
    /\ \E o \in CompletionOutcomes : Settle(o)
    /\ UNCHANGED upstream

StreamFetchSettles ==
    /\ inflight.api = "completion" /\ pc = "awaitStreamFetch"
    /\ \E o \in StreamFetchOutcomes :
          /\ Settle(o)
          /\ upstream' = IF o.kind = "body"
                         THEN [body |-> o.body, pos |-> 0, splits |-> 0,
                               ending |-> "open"]
                         ELSE upstream

Min(a, b) == IF a < b THEN a ELSE b

\* reader.read() delivers the next k characters of the body; a boundary
\* that is not right after a newline, nor the end of the body, splits a line.
ReadDelivers ==
    /\ inflight.api = "read"
    /\ upstream.ending = "open"
    /\ \E k \in 1..Min(MaxChunk, Len(upstream.body) - upstream.pos) :
          LET to == upstream.pos + k
              split == to < Len(upstream.body) /\ upstream.body[to] # "\n"
              n == upstream.splits + (IF split THEN 1 ELSE 0)
          IN  /\ n <= MaxSplits
              /\ Settle([kind |-> "chunk",
                         value |-> SubSeq(upstream.body, upstream.pos + 1, to)])
              /\ upstream' = [upstream EXCEPT !.pos = to, !.splits = n]

\* reader.read() reports the end of the body.
ReadEnds ==
    /\ inflight.api = "read"
    /\ upstream.ending = "open"
    /\ upstream.pos = Len(upstream.body)
    /\ Settle([kind |-> "end"])
    /\ upstream' = [upstream EXCEPT !.ending = "clean"]

\* reader.read() rejects: the upstream connection dropped.
ReadFails ==
    /\ inflight.api = "read"
    /\ upstream.ending = "open"
    /\ Settle(Threw)
    /\ upstream' = [upstream EXCEPT !.ending = "failed"]

\* The caller goes away while its request is being handled.
ClientDisconnects ==
    /\ pc \notin {"idle", "done", "threw"}
    /\ connected
    /\ connected' = FALSE
    /\ UNCHANGED << config, pc, req, topDocs, res, inflight, upstream,
                    calls, mod, writesAfterClose >>

\* The retrieval step of another request, handled concurrently, while this
\* one waits for its moderation or embedding call, that is before its own
\* ranking: it ranks over the same RAG_VECTORS.
ConcurrentRetrieval ==
    /\ RAG_ENABLED /\ Len(RAG_VECTORS) > 0
    /\ inflight.api \in {"moderation", "embedding"}
    /\ \E o \in EmbeddingOutcomes :
          RAG_VECTORS' = StoreAfterRanking(o, RAG_VECTORS)
    /\ UNCHANGED << OPENAI_KEY, RAG_ENABLED, pc, req, topDocs, res, inflight,
                    upstream, connected, calls, mod, writesAfterClose >>

\* The handler resumes after the await it is suspended at.
Resumes(at) == pc = at /\ inflight.result # Pending

Resumed == [Cur EXCEPT !.inflight = NoCall]

AfterModeration ==
    /\ Resumes("awaitModeration")
    /\ Become(Moderated(Resumed, inflight.result, ModerationVerdict(inflight.result)))
    /\ UNCHANGED << config, upstream, connected >>

AfterEmbedding ==
    /\ Resumes("awaitEmbedding")
    /\ Become(Retrieved(Resumed, inflight.result))
    /\ RAG_VECTORS' = StoreAfterRanking(inflight.result, RAG_VECTORS)
    /\ UNCHANGED << OPENAI_KEY, RAG_ENABLED, upstream, connected >>

AfterCompletion ==
    /\ Resumes("awaitCompletion")
    /\ Become(Completed(Cur, inflight.result))
    /\ UNCHANGED << config, upstream, connected >>

AfterNextCompletion ==
    /\ Resumes("awaitNextCompletion")
    /\ Become(NextCompleted(Cur, inflight.result))
    /\ UNCHANGED << config, upstream, connected >>

AfterStreamFetch ==
    /\ Resumes("awaitStreamFetch")
    /\ Become(StreamOpened(Cur, inflight.result))
    /\ UNCHANGED << config, upstream, connected >>

AfterRead ==
    /\ Resumes("reading")
    /\ Become(ReadDone(Cur, inflight.result))
    /\ UNCHANGED << config, upstream, connected >>

\* The request is over: the next one finds a response, a connection and
\* locals of its own, and the process state as it was.
RequestEnds ==
    /\ Finished
    /\ pc' = "idle"
    /\ req' = NoReq
    /\ topDocs' = << >>
    /\ res' = FreshRes
    /\ inflight' = NoCall
    /\ upstream' = NoUpstream
    /\ connected' = TRUE
    /\ calls' = << >>
    /\ mod' = NoMod
    /\ writesAfterClose' = 0
    /\ UNCHANGED config

\* What the handlers do, and what their environment does.
Handler ==
    \/ PostChat \/ PostChatStream \/ PostNextChat \/ GetHealthz
    \/ AfterModeration \/ AfterEmbedding \/ AfterCompletion
    \/ AfterNextCompletion \/ AfterStreamFetch \/ AfterRead

Environment ==
    \/ ModerationSettles \/ EmbeddingSettles \/ CompletionSettles
    \/ StreamFetchSettles \/ ReadDelivers \/ ReadEnds \/ ReadFails
    \/ ClientDisconnects \/ ConcurrentRetrieval \/ RequestEnds

Next == Handler \/ Environment

Spec == Init /\ [][Next]_vars

\* ------------------------------------------------------------------ claims

CallsTo(api) == { i \in 1..Len(calls) : calls[i].api = api }

\* The response is the 400 of the moderation block.
PolicyRejected ==
    res.ended /\ res.status = 400 /\ res.body = ErrorBody(ErrPolicy)

\* C1: on both endpoints, once the moderation verdict of a request is
\* flagged, the request has been answered with status 400 and the
\* policy-violation body, and no embedding call and no completion call was
\* or is issued for it.
C1_FlaggedIsRejected ==
    mod.flagged =>
        /\ pc = "done"
        /\ PolicyRejected
        /\ inflight = NoCall
        /\ CallsTo("embedding") = {}
        /\ CallsTo("completion") = {}

C1_Witness ==
    /\ mod.flagged
    /\ req.endpoint = "stream"
    /\ RAG_ENABLED /\ Len(RAG_VECTORS) > 0
    /\ PolicyRejected

\* The stage after moderation has been entered: the embedding call when
\* retrieval applies, else prompt assembly and the completion call.
PastModeration ==
    IF RAG_ENABLED /\ Len(RAG_VECTORS) > 0
    THEN Len(calls) >= 2 /\ calls[2].api = "embedding"
    ELSE \/ pc = "threw" /\ Len(calls) = 1
         \/ Len(calls) >= 2 /\ calls[2].api = "completion"

\* C2: when the moderation call fails (fetch rejects, non-success status,
\* a body that does not parse or holds no flagged value), the verdict is
\* not flagged, the request is not rejected as a policy violation, and it
\* has gone on to the next stage as after a passing verdict.
C2_ModerationFailsOpen ==
    (mod.called /\ mod.failed) =>
        /\ ~mod.flagged
        /\ ~PolicyRejected
        /\ PastModeration

C2_Witness ==
    /\ mod.called /\ mod.failed
    /\ pc = "done"
    /\ res.body.kind = "reply"

\* The message of the request is missing, not a string, empty,
\* whitespace-only or longer than 8000 characters.
InvalidMessage(m) ==
    \/ m.t # "string"
    \/ m.s = << >>
    \/ TextLength(Trim(m.s)) = 0
    \/ TextLength(m.s) > MaxMessageLen

\* C3: a request whose message is missing, not a string, empty,
\* whitespace-only or longer than 8000 characters is answered with status
\* 400 and a validation error, and no external call is made for it.
C3_InvalidIsRejected ==
    (req.endpoint \in {"chat", "stream"} /\ InvalidMessage(req.message)) =>
        /\ pc = "done"
        /\ res.status = 400
        /\ res.body \in { ErrorBody(ErrInvalid), ErrorBody(ErrEmpty),
                          ErrorBody(ErrTooLong) }
        /\ calls = << >>

\* The request passed validation.
PassedValidation ==
    /\ req.endpoint \in {"chat", "stream"}
    /\ ~MessageThrows(req.message)
    /\ validateMessageText(req.userMessage) = NoError

\* C4: without a credential, a request that passes validation is answered
\* with the configuration error (status 500) and no external call is made
\* for it, also when retrieval is enabled and the corpus is not empty.
C4_NoCredentialNoCall ==
    (~OPENAI_KEY /\ PassedValidation) =>
        /\ calls = << >>
        /\ pc = "done" => res.status = 500 /\ res.body = ErrorBody(ErrNoKey)

\* A streaming request whose upstream body was read to its clean end with
\* every line wholly inside one chunk.
CleanWholeLines ==
    /\ req.endpoint = "stream"
    /\ pc = "done"
    /\ upstream.ending = "clean"
    /\ upstream.splits = 0

\* C5: when the upstream delivers its lines whole and ends cleanly, the
\* writes are one frame per non-blank line of the upstream body, in the
\* order of the lines, then exactly one done event, and the response is
\* closed; nothing is written after the done event.
C5_CleanStreamFrames ==
    CleanWholeLines =>
        /\ res.writes = FramesOfLines(Split(upstream.body)) \o << DoneFrame >>
        /\ res.ended

\* Three data lines, then a clean end.
C5_Witness ==
    /\ CleanWholeLines
    /\ Len(res.writes) = 4
    /\ \A i \in 1..3 : res.writes[i].event = "message"
    /\ \A i \in 1..3 : res.writes[i].data = << Digit(i) >>

\* The text of the upstream body read so far.
Received == SubSeq(upstream.body, 1, upstream.pos)

TerminalEvents ==
    { i \in 1..Len(res.writes) : res.writes[i].event \in {"done", "error"} }

\* C7: a streaming request whose headers were flushed issues the completion
\* request exactly once and never again, writes no terminal event while it
\* runs, and ends with exactly one terminal event (done or error, never
\* both, never two), which is its last write before the close.
C7_OneTerminalEvent ==
    res.flushed =>
        /\ req.endpoint = "stream"
        /\ Cardinality(CallsTo("completion")) = 1
        /\ pc # "threw"
        /\ pc # "done" => TerminalEvents = {} /\ ~res.ended
        /\ pc = "done" => /\ TerminalEvents = { Len(res.writes) }
                          /\ res.ended

\* An error event after frames were forwarded and the caller had left.
C7_Witness ==
    /\ res.flushed /\ pc = "done"
    /\ ~connected
    /\ Len(res.writes) >= 2
    /\ res.writes[Len(res.writes)].event = "error"

\* C8: once the event-stream headers are flushed the status was never set
\* and stays 200 whatever happens later, and every response of the
\* streaming endpoint whose status was set (400, 500) has no flushed
\* event-stream headers.
C8_StatusFixedOnceFlushed ==
    /\ res.flushed => res.status = 200 /\ res.statusCalls = 0 /\ res.body = NoBody
    /\ (req.endpoint = "stream" /\ res.statusCalls > 0) =>
          ~res.flushed /\ res.status \in {400, 500}

\* The upstream answered the streaming call with a non-success status.
C8_Witness ==
    /\ res.flushed /\ pc = "done"
    /\ res.writes = << ErrorFrame(ErrStreamUpstream) >>
    /\ res.status = 200

\* C9: after the caller disconnects, the streaming relay writes no further
\* frame to the response.
C9_NoWriteAfterDisconnect == writesAfterClose = 0

\* The handler is suspended on an external call that has not settled.
CallPending == inflight.api # "none" /\ inflight.result = Pending

\* C10: every external call (moderation, embedding, completion, streaming
\* completion, each streaming read) is bounded by a timeout: while a call is
\* pending the handler has a step of its own that ends the wait, so that a
\* request whose upstream never answers still reaches its terminal outcome.
C10_PendingCallIsBounded == CallPending => ENABLED Handler

\* r is s without its leading and trailing whitespace.
IsTrimOf(r, s) ==
    \E i \in 1..(Len(s) + 1), j \in 0..Len(s) :
        /\ i <= j + 1
        /\ r = SubSeq(s, i, j)
        /\ \A k \in 1..(i - 1) : IsSpace(s[k].c)
        /\ \A k \in (j + 1)..Len(s) : IsSpace(s[k].c)
        /\ r # << >> => ~IsSpace(r[1].c) /\ ~IsSpace(r[Len(r)].c)

\* The completion endpoint answered a success status with a first-choice
\* content that is a non-empty string.
HasContent(o) ==
    /\ o.kind = "json" /\ o.parses
    /\ o.content.t = "string" /\ o.content.s # << >>

\* ... with a content that is absent or the empty string.
LacksContent(o) ==
    /\ o.kind = "json" /\ o.parses
    /\ \/ o.content.t \in {"undefined", "null"}
       \/ o.content.t = "string" /\ o.content.s = << >>

\* C11: when the buffered relay (of server.js and of the Next.js route)
\* resumes after its completion call, a non-success status is answered with
\* 502 and the upstream-error body, a success status with absent or empty
\* content with 502 and the unexpected-response body, a rejected fetch with
\* 500, and the answer is 200 only for a success status with non-empty
\* content, the reply then being that content without its surrounding
\* whitespace.
C11_CompletionMapsToResponse ==
    [][(pc \in {"awaitCompletion", "awaitNextCompletion"} /\ pc' = "done") =>
         LET o == inflight.result
         IN  /\ res'.ended
             /\ o.kind = "status" =>
                   res'.status = 502 /\ res'.body = ErrorBody(ErrUpstream)
             /\ LacksContent(o) =>
                   res'.status = 502 /\ res'.body = ErrorBody(ErrShape)
             /\ o.kind = "throw" =>
                   res'.status = 500 /\ res'.body = ErrorBody(ErrServer)
             /\ HasContent(o) <=>
                   /\ res'.status = 200
                   /\ res'.body.kind = "reply"
             /\ HasContent(o) => IsTrimOf(res'.body.reply, o.content.s)
      ]_vars

\* The content " hola\n" was answered as "hola".
C11_Witness ==
    /\ req.endpoint = "chat" /\ pc = "done"
    /\ res.status = 200
    /\ res.body = ReplyBody(Hola)

\* C12: every /api/chat request of server.js is answered exactly once on
\* every path -- once its handler has finished, a response with a body was
\* sent -- and the completion request is issued at most once for it.
C12_ExactlyOneResponse ==
    req.endpoint = "chat" =>
        /\ Cardinality(CallsTo("completion")) <= 1
        /\ Finished => res.ended /\ res.body # NoBody

\* The non-success answers of the completion endpoint.
UpstreamErrors ==
    { o \in CompletionOutcomes \cup StreamFetchOutcomes : o.kind = "status" }

\* C13: whenever a handler waits for its completion call, any two
\* non-success answers of the completion endpoint, whatever their status
\* codes and error texts, leave the handler in the same state with the same
\* response: the 502 with the fixed upstream-error body for the buffered
\* relays, the fixed error event for the streaming relay.
C13_UpstreamErrorIsGeneric ==
    \A o1, o2 \in UpstreamErrors :
        /\ pc = "awaitCompletion" =>
              /\ Completed(Cur, o1) = Completed(Cur, o2)
              /\ Completed(Cur, o1).res.status = 502
              /\ Completed(Cur, o1).res.body = ErrorBody(ErrUpstream)
        /\ pc = "awaitNextCompletion" =>
              /\ NextCompleted(Cur, o1) = NextCompleted(Cur, o2)
              /\ NextCompleted(Cur, o1).res.status = 502
              /\ NextCompleted(Cur, o1).res.body = ErrorBody(ErrUpstream)
        /\ pc = "awaitStreamFetch" =>
              /\ StreamOpened(Cur, o1) = StreamOpened(Cur, o2)
              /\ StreamOpened(Cur, o1).res.writes
                    = << ErrorFrame(ErrStreamUpstream) >>
              /\ StreamOpened(Cur, o1).res.body = NoBody

\* The buffered relay answered a non-success status of the completion
\* endpoint.
C13_Witness ==
    /\ req.endpoint = "chat" /\ pc = "done"
    /\ Cardinality(CallsTo("completion")) = 1
    /\ res.status = 502
    /\ res.body = ErrorBody(ErrUpstream)

\* The embedding call threw, answered a non-success status or a body that
\* does not parse, or answered without a vector.
EmbeddingFailed(o) ==
    \/ o.kind \in {"throw", "status"}
    \/ o.kind = "json" /\ ~o.parses
    \/ o.kind = "json" /\ o.parses /\ o.embedding.t = "undefined"

\* C14: when a handler resumes after an embedding call that failed, the
\* retrieved-document list is empty and no error is answered because of it:
\* with a credential and a history that can be assembled, the handler
\* issues the completion call, its system message being the plain system
\* prompt, and the response is still open.
C14_RetrievalFailureIsAbsorbed ==
    [][(pc = "awaitEmbedding" /\ pc' # pc /\ EmbeddingFailed(inflight.result)) =>
         /\ topDocs' = << >>
         /\ pc' = "done" => ~OPENAI_KEY /\ res'.body = ErrorBody(ErrNoKey)
         /\ pc' = "threw" => buildMessagesThrows(req.clientHistory)
         /\ (OPENAI_KEY /\ ~buildMessagesThrows(req.clientHistory)) =>
               /\ pc' \in {"awaitCompletion", "awaitStreamFetch"}
               /\ res'.body = NoBody /\ ~res'.ended /\ res'.writes = << >>
               /\ calls' = Append(calls, calls'[Len(calls')])
               /\ calls'[Len(calls')].api = "completion"
               /\ calls'[Len(calls')].messages[1]
                     = Message("system", RagSystem(SYSTEM_PROMPT, << >>))
      ]_vars

\* The completion call was issued after a failed embedding call over a
\* corpus that loaded well.
C14_Witness ==
    /\ RAG_VECTORS = CorpusGood
    /\ pc = "awaitCompletion"
    /\ Len(calls) = 3 /\ calls[2].api = "embedding"
    /\ topDocs = << >>
    /\ calls[3].messages[1] = Message("system", RagSystem(SYSTEM_PROMPT, << >>))

\* A record of the store with an identifier, a text and a vector.
WellFormed(d) ==
    /\ d.id.t # "undefined"
    /\ d.text.t # "undefined"
    /\ d.embedding.t = "vector"

\* The corpus source held a record without identifier, text or vector, and
\* the store holds it.
LoadedMalformed ==
    \E i \in 1..Len(RAG_VECTORS) : ~WellFormed(RAG_VECTORS[i])

\* C15: a corpus source with a record that lacks an identifier, a text or
\* a vector is rejected as a whole, so that with such a source no request
\* issues an embedding call and the health report shows a corpus of size 0.
C15_MalformedSourceIsRejected ==
    LoadedMalformed =>
        /\ CallsTo("embedding") = {}
        /\ req.endpoint = "healthz" => res.body.rag_vectors = 0

\* C16: no step of request handling, of this request or of one handled
\* concurrently, changes the embedding store: the contents and the order
\* of RAG_VECTORS stay what the startup load left.
C16_StoreIsNeverMutated == [][RAG_VECTORS' = RAG_VECTORS]_vars

\* A request was served documents in an order that is not the store's,
\* and the store is the corpus as loaded.
C16_Witness ==
    /\ RAG_VECTORS = CorpusGood
    /\ Len(topDocs) = RAG_TOP_K
    /\ topDocs[1].id = CorpusGood[2].id
    /\ pc = "done"

\* A handler has issued its completion call, which is the last of calls.
CompletionIssued == inflight.api = "completion" /\ inflight.result = Pending

\* C17: the messages of a completion call are the system message (the
\* system prompt with the retrieved documents), then one message per
\* entry of the history in its order, with the entry's content and with
\* role assistant or else user, then the user's message: |history| + 2
\* messages, the first being the only one with role system.
C17_AssembledMessages ==
    CompletionIssued =>
        LET m == calls[Len(calls)].messages
            h == req.clientHistory
        IN  /\ Len(m) = Len(h) + 2
            /\ m[1] = Message("system", RagSystem(SYSTEM_PROMPT, topDocs))
            /\ \A k \in 2..Len(m) : m[k].role \in {"user", "assistant"}
            /\ m[Len(m)] = Message("user", req.userMessage)
            /\ \A k \in 1..Len(h) :
                  /\ m[k + 1].role = "assistant" <=> h[k].role = "assistant"
                  /\ m[k + 1].content = StringOf(h[k].content)

\* Retrieved documents, and a history with an entry that claims the role
\* system.
C17_Witness ==
    /\ CompletionIssued
    /\ topDocs # << >>
    /\ \E k \in 1..Len(req.clientHistory) : req.clientHistory[k].role = "system"

\* used is what the bound n leaves of the history supplied.
TruncatedTo(supplied, used, n) ==
    IF supplied.t # "array" THEN used = << >>
    ELSE LET len == Len(supplied.items)
         IN  IF len <= n THEN used = supplied.items
             ELSE /\ Len(used) = n
                  /\ \A k \in 1..n : used[k] = supplied.items[len - n + k]

\* C18: the history a handler works with is the history supplied when that
\* is an array of at most N entries, its last N entries in their order
\* when it is a longer array, and empty when it is not an array; N is 20
\* for the handlers of server.js and 10 for the Next.js route.
C18_HistoryIsTruncated ==
    /\ req.endpoint \in {"chat", "stream"} =>
          TruncatedTo(req.history, req.clientHistory, HistoryBound)
    /\ req.endpoint = "next" =>
          TruncatedTo(req.history, req.clientHistory, NextHistoryBound)

\* A history of one entry more than the bound lost its first entry.
C18_Witness ==
    /\ req.endpoint = "stream"
    /\ req.history = JArr(LongHistory)
    /\ Len(req.clientHistory) = HistoryBound
    /\ req.clientHistory[1] = LongHistory[2]
    /\ CallsTo("completion") # {}

\* The query vectors the embedding endpoint answers with.
Queries ==
    { o.embedding.v :
        o \in { x \in EmbeddingOutcomes :
                  x.kind = "json" /\ x.parses /\ x.embedding.t = "vector" } }

SimEqual(x, y) == x.num * y.den = y.num * x.den

\* The place in the store of a retrieved document.
CorpusIndex(d) == CHOOSE i \in 1..Len(RAG_VECTORS) : RAG_VECTORS[i].id = d.id

\* C19: the documents of the prompt of a completion call are records of
\* the store with their similarity to the query, in non-increasing order of
\* similarity and, among equals, in the order of the store; every record
\* left out ranks after each of them in that order; and they are
\* min(K, corpus size) many: the first entries of the stable descending
\* ranking of the store.
C19_RankingIsSortedPrefix ==
    (CompletionIssued /\ topDocs # << >>) =>
        \E q \in Queries :
            LET n == Len(RAG_VECTORS)
                sim(i) == cosineSim(q, RAG_VECTORS[i].embedding.v)
                at(k) == CorpusIndex(topDocs[k])
                Before(i, j) ==
                    \/ SimGreater(sim(i), sim(j))
                    \/ SimEqual(sim(i), sim(j)) /\ i < j
            IN  /\ Len(topDocs) = Min(RAG_TOP_K, n)
                /\ \A k \in 1..Len(topDocs) :
                      /\ topDocs[k].text = RAG_VECTORS[at(k)].text
                      /\ topDocs[k].embedding = RAG_VECTORS[at(k)].embedding
                      /\ topDocs[k].sim = sim(at(k))
                /\ \A k, l \in 1..Len(topDocs) : k < l => Before(at(k), at(l))
                /\ \A i \in 1..n :
                      (\A k \in 1..Len(topDocs) : at(k) # i) =>
                          \A k \in 1..Len(topDocs) : Before(at(k), i)

\* Two documents of equal, non-zero similarity lead the ranking in the
\* order of the store, ahead of one of lower similarity.
C19_Witness ==
    /\ CompletionIssued
    /\ Len(topDocs) = RAG_TOP_K
    /\ topDocs[1].id = CorpusGood[1].id
    /\ topDocs[2].id = CorpusGood[3].id
    /\ topDocs[3].id = CorpusGood[4].id
    /\ SimEqual(topDocs[1].sim, topDocs[2].sim)
    /\ SimGreater(topDocs[2].sim, topDocs[3].sim)

\* The norm of a is zero: a is empty or all its components are zero.
ZeroNorm(a) == \A i \in 1..Len(a) : a[i] = 0

\* The product of the components at i, where both vectors have one.
ProductAt(a, b, i) == IF i <= Len(a) /\ i <= Len(b) THEN a[i] * b[i] ELSE 0

\* The dot product of two vectors of at most two components.
DotProduct(a, b) == ProductAt(a, b, 1) + ProductAt(a, b, 2)

\* C20: the similarity of each document of the prompt to the query is 0
\* when the query or the document's vector has zero norm (all components
\* zero, or no component), and else the dot product over the product of
\* the norms: the fraction kept is the signed square of the dot product
\* over the product of the squared norms, which is not zero.
C20_CosineSimilarity ==
    (CompletionIssued /\ topDocs # << >>) =>
        \E q \in Queries :
            \A k \in 1..Len(topDocs) :
                LET e == topDocs[k].embedding.v
                    d == DotProduct(q, e)
                IN  IF ZeroNorm(q) \/ ZeroNorm(e)
                    THEN topDocs[k].sim = [num |-> 0, den |-> 1]
                    ELSE /\ topDocs[k].sim.den
                              = DotProduct(q, q) * DotProduct(e, e)
                         /\ topDocs[k].sim.den > 0
                         /\ topDocs[k].sim.num = (IF d < 0 THEN 0 - d * d ELSE d * d)

\* A query that is not zero ranked the document with the zero vector
\* third, after two documents of positive similarity.
C20_Witness ==
    /\ CompletionIssued
    /\ Len(topDocs) = RAG_TOP_K
    /\ topDocs[1].sim.num > 0
    /\ topDocs[2].sim.num > 0
    /\ topDocs[3].embedding = Vec(<< 0, 0 >>)
    /\ topDocs[3].sim.num = 0

\* The place of an external call in the order of the stages.
StageOf(api) ==
    CASE api = "moderation" -> 1
      [] api = "embedding" -> 2
      [] api = "completion" -> 3

\* No external call of the request is in flight: none was issued yet, or
\* the one the handler waited for has resolved.
NoneInFlight == inflight.api = "none" \/ inflight.result # Pending

\* C21: a step of a handler issues at most one external call, and only
\* when no call of the request is in flight; the request had passed
\* validation; the calls of a request are in the order moderation,
\* embedding, completion, each at most once; the embedding call is issued
\* by the step that resumes after the moderation call (or with moderation
\* skipped for want of a credential), and the completion call by the step
\* that resumes after the embedding call, or after the moderation call when
\* retrieval is skipped.
C21_StagesAreSequential ==
    [][calls' # calls /\ calls' # << >> =>
         LET new == calls'[Len(calls')]
         IN  /\ calls' = Append(calls, new)
             /\ NoneInFlight
             /\ inflight' = [api |-> new.api, result |-> Pending]
             /\ validateMessageText(req'.userMessage) = NoError
             /\ \A i \in 1..Len(calls) : StageOf(calls[i].api) < StageOf(new.api)
             /\ (new.api = "embedding" /\ OPENAI_KEY) => pc = "awaitModeration"
             /\ (new.api = "embedding" /\ ~OPENAI_KEY) => pc = "idle"
             /\ (new.api = "completion" /\ req'.endpoint # "next") =>
                   \/ pc = "awaitEmbedding"
                   \/ pc = "awaitModeration"
                         /\ ~(RAG_ENABLED /\ Len(RAG_VECTORS) > 0)
      ]_vars

\* A streaming request went through its three calls and was read to its
\* end.
C21_Witness ==
    /\ req.endpoint = "stream" /\ pc = "done"
    /\ Len(calls) = 3
    /\ calls[1].api = "moderation"
    /\ calls[2].api = "embedding"
    /\ calls[3].api = "completion"
    /\ topDocs # << >>
    /\ upstream.ending = "clean"

\* C22: the frames the streaming relay has written when the upstream body
\* was read to its clean end are those of the lines of the body, one per
\* non-blank line and then the done event, however the body was divided
\* into chunks, a chunk boundary inside a line included.
C22_FramesIndependentOfChunking ==
    (req.endpoint = "stream" /\ pc = "done" /\ upstream.ending = "clean") =>
        res.writes = FramesOfLines(Split(upstream.body)) \o << DoneFrame >>

====
